---- MODULE Spec2Model ----
(***************************************************************************)
(* GeoSpotlight (src/agent.py): the DVF acquisition pipeline.              *)
(*                                                                         *)
(*   Spec        fetch_all_pages_dvf_api: the cursor-following fetch loop  *)
(*               with its retry budget and exponential backoff.  One       *)
(*               action per HTTP attempt; the remote source answers each   *)
(*               attempt nondeterministically.                             *)
(*   LiveSpec    Spec with every enabled step eventually taken.            *)
(*   RefineSpec  refine_dvf_data applied to bounded sequences of raw       *)
(*               entries, one action per loop iteration.                   *)
(*   StatsSpec   calculate_comprehensive_statistics applied to bounded     *)
(*               lists of refined entries.                                 *)
(*   MainSpec    main: the fetch, then refine_dvf_data and                 *)
(*               calculate_comprehensive_statistics, each as one call.     *)
(*                                                                         *)
(* Amounts are integers (euros, square metres); a price per square metre   *)
(* is kept in cents, which is what round(x, 2) leaves of it; the means of  *)
(* the report are doubles.                                                 *)
(***************************************************************************)
EXTENDS Integers, Sequences, FiniteSets, TLC

VARIABLES
    \* ---- fetch_all_pages_dvf_api ----
    bbox,        \* argument: "" or a bounding box string
    min_year,    \* argument: "" or a year string
    chain,       \* the remote source: [n |-> pages, loop |-> 0 or a page]
    pc,          \* "start" | "loop" | "returned" | "raised"
    api_url,     \* the page the next request goes to (1 = DVF_API_BASE_URL)
    params,      \* TRUE: the filter parameters, FALSE: {}
    results,     \* accumulator
    page_count,
    retries,
    error,       \* "none" | "ValidationError" | "APIError"
    out,         \* what the caller receives: [set |-> BOOLEAN, val |-> Seq]
    reqLog,      \* history: every requests.get, with its answer
    sleepLog,    \* history: every time.sleep, with the request it follows
    \* ---- refine_dvf_data / calculate_comprehensive_statistics ----
    dvf_entries,     \* the raw entries iterated so far
    rpc,             \* "loop" | "returned" | "raised" | "stats_done" | "stats_raised"
    refined_entries,
    rerror,          \* "none" | "TypeError" | "ValueError"
    skipped,         \* number of "Data conversion error" warnings logged
    stats,           \* the report of calculate_comprehensive_statistics
    \* ---- main ----
    calls            \* history: the stage functions main has called, in order

fetchVars == <<bbox, min_year, chain, pc, api_url, params, results, page_count,
               retries, error, out, reqLog, sleepLog>>
refineVars == <<dvf_entries, rpc, refined_entries, rerror, skipped, stats>>
mainVars == <<calls>>
vars == <<fetchVars, refineVars, mainVars>>

(***************************************************************************)
(* Bounds of the model.                                                    *)
(***************************************************************************)
MaxPages == 2
MaxRequests == 6
MaxEntries == 2

(***************************************************************************)
(* Program constants.                                                      *)
(***************************************************************************)
MAX_RETRIES == 3
max_retries == 3

(***************************************************************************)
(* The remote source.  A chain has n pages 1..n, page p < n carries a      *)
(* "next" reference to p + 1, and page n carries either none (loop = 0) or *)
(* a reference back to page `loop` (a cyclic cursor).                      *)
(***************************************************************************)
Chains == {c \in [n : 1..MaxPages, loop : 0..MaxPages] : c.loop <= c.n}

NextUrl(c, p) == IF p < c.n THEN p + 1 ELSE c.loop

\* data.get('results', []) of page p: page p carries (p % 3) records.
PageResults(p) == [i \in 1..(p % 3) |-> 10 * p + i]

\* The answers one attempt can get.  raise_for_status() turns a 4xx/5xx
\* status into requests.exceptions.HTTPError; a timeout or a network failure
\* is a requests.exceptions.RequestException that is no HTTPError.
HttpErrorStatuses == {"403", "404", "500"}
RequestExceptions == {"timeout"}
Transient == {"500", "timeout"}

NoOut == [set |-> FALSE, val |-> <<>>]

(***************************************************************************)
(* fetch_all_pages_dvf_api                                                 *)
(***************************************************************************)
\* line 298: the one status that is never retried
IsAreaTooLargeMutant(status) == status = "404"
IsAreaTooLarge(status) == status = "403"

\* lines 303, 312: `if retries > 0` after the decrement
RetryLeftMutant(r) == r >= 0
RetryLeft(r) == r > 0

\* lines 304, 313: wait_time = 2 ** (MAX_RETRIES - retries)
WaitTimeMutant(r) == 2 ^ (MAX_RETRIES - r + 1)
WaitTime(r) == 2 ^ (MAX_RETRIES - r)

Logged(answer) == Append(reqLog, [url |-> api_url, params |-> params, answer |-> answer])

\* raise APIError(...): the exception leaves the function, the local
\* accumulator is dropped and the caller receives no value.
RaiseAPIErrorMutant ==
    /\ pc' = "returned"
    /\ error' = "none"
    /\ out' = [set |-> TRUE, val |-> results]
    /\ UNCHANGED <<api_url, params, results, page_count, sleepLog>>
RaiseAPIError ==
    /\ pc' = "raised"
    /\ error' = "APIError"
    /\ out' = NoOut
    /\ UNCHANGED <<api_url, params, results, page_count, sleepLog>>

\* lines 302-308 and 311-317: one attempt is spent; sleep and go round the
\* inner loop again, or give up.
RetryOrGiveUp ==
    /\ retries' = retries - 1
    /\ IF RetryLeft(retries')
          THEN /\ sleepLog' = Append(sleepLog, [secs |-> WaitTime(retries'),
                                                 after |-> Len(reqLog')])
               /\ UNCHANGED <<pc, error, out, api_url, params, results, page_count>>
          ELSE RaiseAPIError

\* lines 254-270: argument validation and the locals before the loop; the
\* first pass of `while True` sets retries.
StartMutant ==
    /\ pc = "start"
    /\ IF bbox = "" \/ min_year = ""
          THEN /\ pc' = "raised"
               /\ error' = "ValidationError"
               /\ UNCHANGED <<api_url, params, results, page_count, retries>>
          ELSE /\ pc' = "loop"
               /\ api_url' = 1
               /\ params' = TRUE
               /\ results' = <<>>
               /\ page_count' = 0
               /\ retries' = max_retries + 1
               /\ UNCHANGED error
    /\ UNCHANGED <<bbox, min_year, chain, out, reqLog, sleepLog>>
Start ==
    /\ pc = "start"
    /\ IF bbox = "" \/ min_year = ""
          THEN /\ pc' = "raised"
               /\ error' = "ValidationError"
               /\ UNCHANGED <<api_url, params, results, page_count, retries>>
          ELSE /\ pc' = "loop"
               /\ api_url' = 1
               /\ params' = TRUE
               /\ results' = <<>>
               /\ page_count' = 0
               /\ retries' = max_retries
               /\ UNCHANGED error
    /\ UNCHANGED <<bbox, min_year, chain, out, reqLog, sleepLog>>

\* A chain without a cycle bounds the fetch by itself; a cyclic one is cut
\* off after MaxRequests requests.
Budgeted == chain.loop = 0 \/ Len(reqLog) < MaxRequests

\* lines 277-295: the attempt succeeds.
RequestOkMutant ==
    /\ pc = "loop"
    /\ retries > 0
    /\ Budgeted
    /\ reqLog' = Logged("200")
    /\ results' = results \o PageResults(api_url)
    /\ page_count' = page_count + 1
    /\ IF NextUrl(chain, api_url) = 0
          THEN /\ pc' = "returned"
               /\ out' = [set |-> TRUE, val |-> results']
               /\ UNCHANGED <<api_url, params, retries>>
          ELSE /\ api_url' = NextUrl(chain, api_url)
               /\ retries' = max_retries
               /\ UNCHANGED <<pc, out, params>>
    /\ UNCHANGED <<bbox, min_year, chain, error, sleepLog>>
RequestOkSharedBudgetMutant ==
    /\ pc = "loop"
    /\ retries > 0
    /\ Budgeted
    /\ reqLog' = Logged("200")
    /\ results' = results \o PageResults(api_url)
    /\ page_count' = page_count + 1
    /\ IF NextUrl(chain, api_url) = 0
          THEN /\ pc' = "returned"
               /\ out' = [set |-> TRUE, val |-> results']
               /\ UNCHANGED <<api_url, params, retries>>
          ELSE /\ api_url' = NextUrl(chain, api_url)
               /\ params' = FALSE
               /\ UNCHANGED <<pc, out, retries>>
    /\ UNCHANGED <<bbox, min_year, chain, error, sleepLog>>
RequestOk ==
    /\ pc = "loop"
    /\ retries > 0
    /\ Budgeted
    /\ reqLog' = Logged("200")
    /\ results' = results \o PageResults(api_url)
    /\ page_count' = page_count + 1
    /\ IF NextUrl(chain, api_url) = 0
          THEN /\ pc' = "returned"
               /\ out' = [set |-> TRUE, val |-> results']
               /\ UNCHANGED <<api_url, params, retries>>
          ELSE /\ api_url' = NextUrl(chain, api_url)
               /\ params' = FALSE
               /\ retries' = max_retries
               /\ UNCHANGED <<pc, out>>
    /\ UNCHANGED <<bbox, min_year, chain, error, sleepLog>>

\* lines 297-308: raise_for_status() raised HTTPError.
RequestHTTPError(status) ==
    /\ pc = "loop"
    /\ retries > 0
    /\ Budgeted
    /\ reqLog' = Logged(status)
    /\ IF IsAreaTooLarge(status)
          THEN RaiseAPIError /\ UNCHANGED retries
          ELSE RetryOrGiveUp
    /\ UNCHANGED <<bbox, min_year, chain>>

\* lines 310-317: requests.get raised another RequestException.
RequestFailed(exc) ==
    /\ pc = "loop"
    /\ retries > 0
    /\ Budgeted
    /\ reqLog' = Logged(exc)
    /\ RetryOrGiveUp
    /\ UNCHANGED <<bbox, min_year, chain>>

FetchInit ==
    /\ bbox \in {"", "2.34,48.85,2.35,48.86"}
    /\ min_year \in {"", "2023"}
    /\ chain \in Chains
    /\ pc = "start"
    /\ api_url = 0
    /\ params = FALSE
    /\ results = <<>>
    /\ page_count = 0
    /\ retries = 0
    /\ error = "none"
    /\ out = NoOut
    /\ reqLog = <<>>
    /\ sleepLog = <<>>


(***************************************************************************)
(* Raw DVF entries.  A JSON value is [kind, v]:                            *)
(*   absent    the key is not in the entry        null     JSON null       *)
(*   num       a JSON number v                    numstr   the string "v"  *)
(*   badstr    a string that is no number         emptystr the string ""   *)
(*   str       a string v     list  an array v    bool     true / false    *)
(***************************************************************************)
Absent(zero) == [kind |-> "absent", v |-> zero]
Null(zero) == [kind |-> "null", v |-> zero]
Num(n) == [kind |-> "num", v |-> n]
NumStr(n) == [kind |-> "numstr", v |-> n]
BadStr == [kind |-> "badstr", v |-> 0]
EmptyStr == [kind |-> "emptystr", v |-> 0]
Str(t) == [kind |-> "str", v |-> t]
List(l) == [kind |-> "list", v |-> l]
Bool(b) == [kind |-> "bool", v |-> b]

\* a conversion either yields a number or raises
Ok(n) == [err |-> "none", v |-> n]
Raised(e) == [err |-> e, v |-> 0]

\* dict.get(key, default): the default replaces an absent key only
Get(x, default) == IF x.kind = "absent" THEN default ELSE x

\* `x or 0.0`: None, 0 and "" are falsy
OrZero(x) == IF x.kind \in {"absent", "null", "emptystr"} \/ (x.kind = "num" /\ x.v = 0)
                THEN Num(0) ELSE x

\* int(x) and float(x) on the values above: a number or a numeric string
\* converts, None is a TypeError, any other string a ValueError
PyInt(x) ==
    CASE x.kind \in {"num", "numstr"} -> Ok(x.v)
      [] x.kind \in {"badstr", "emptystr"} -> Raised("ValueError")
      [] OTHER -> Raised("TypeError")
PyFloat(x) == PyInt(x)

\* bool(x)
PyBool(x) == IF x.kind = "bool" THEN x.v ELSE FALSE

\* round(value / area, 2), in cents: the nearest hundredth (an exact half goes
\* to the even cent; no input below produces one)
Round2(value, area) ==
    LET q == (100 * value) \div area
        r == (100 * value) % area
    IN  IF 2 * r > area \/ (2 * r = area /\ q % 2 = 1) THEN q + 1 ELSE q

None == [none |-> TRUE, cents |-> 0]
Some(c) == [none |-> FALSE, cents |-> c]

\* lines 442-449: the price per square metre
PricePerAreaMutant(value, area) == IF area > 0 THEN Some(Round2(value, area)) ELSE None
PricePerArea(value, area) ==
    IF area > 0 /\ value > 0 THEN Some(Round2(value, area)) ELSE None

\* lines 405-412: the conversions inside the try block
Converted(entry) ==
    [mutation_year |-> PyInt(Get(entry.anneemut, Num(0))),
     land_value |-> PyFloat(OrZero(entry.valeurfonc)),
     land_area |-> PyFloat(OrZero(entry.sterr)),
     built_area |-> PyFloat(OrZero(entry.sbati))]

TryFields == <<"mutation_year", "land_value", "land_area", "built_area">>

\* lines 428-439: the conversions after the try block, in program order
CountKeys == <<"nbpar", "nbparmut", "nbvolmut", "nblocmut", "nbcomm">>
Count(entry, key) == PyInt(Get(entry[key], Num(0)))

\* the first exception a sequence of conversions raises, "none" if none does
RECURSIVE FirstError(_)
FirstError(convs) ==
    IF convs = <<>> THEN "none"
    ELSE IF Head(convs).err # "none" THEN Head(convs).err ELSE FirstError(Tail(convs))

TryErrorMutant(entry) == Converted(entry).mutation_year.err
TryError(entry) == FirstError([i \in 1..Len(TryFields) |-> Converted(entry)[TryFields[i]]])
CountError(entry) == FirstError([i \in 1..Len(CountKeys) |-> Count(entry, CountKeys[i])])

\* lines 403-407, 418-491: the refined entry
Refined(entry) ==
    LET c == Converted(entry) IN
    [mutation_id |-> Get(entry.idmutation, Str("")),
     mutation_date |-> Get(entry.datemut, Null("")),
     mutation_year |-> c.mutation_year.v,
     department_code |-> Get(entry.coddep, Null("")),
     insee_codes |-> Get(entry.l_codinsee, List(<<>>)),
     nb_communes |-> Count(entry, "nbcomm").v,
     land_value |-> c.land_value.v,
     land_area |-> c.land_area.v,
     built_area |-> c.built_area.v,
     price_per_m2 |-> PricePerArea(c.land_value.v, c.built_area.v),
     price_per_m2_land |-> PricePerArea(c.land_value.v, c.land_area.v),
     property_type_code |-> Get(entry.codtypbien, Null("")),
     property_type_label |-> Get(entry.libtypbien, Null("")),
     mutation_nature |-> Get(entry.libnatmut, Null("")),
     is_vefa |-> PyBool(Get(entry.vefa, Bool(FALSE))),
     nb_parcels |-> Count(entry, "nbpar").v,
     nb_parcels_mutated |-> Count(entry, "nbparmut").v,
     parcel_ids |-> Get(entry.l_idpar, List(<<>>)),
     mutated_parcel_ids |-> Get(entry.l_idparmut, List(<<>>)),
     nb_volumes_mutated |-> Count(entry, "nbvolmut").v,
     nb_locals_mutated |-> Count(entry, "nblocmut").v,
     local_ids |-> Get(entry.l_idlocmut, List(<<>>)),
     raw_entry |-> entry]

(***************************************************************************)
(* The raw entries the refinement is run on: a complete entry, the same    *)
(* entry with one field replaced by each kind of value, and a grid of      *)
(* amounts for the price rule.                                             *)
(***************************************************************************)
BaseEntry ==
    [idmutation |-> Str("m1"), datemut |-> Str("2022-05-01"), anneemut |-> Num(2022),
     coddep |-> Str("75"), l_codinsee |-> List(<<"75101">>),
     valeurfonc |-> Num(250000), sterr |-> Num(200), sbati |-> Num(100),
     codtypbien |-> Str("121"), libtypbien |-> Str("Appartement"),
     libnatmut |-> Str("Vente"), vefa |-> Bool(FALSE),
     nbpar |-> Num(1), nbparmut |-> Num(1), l_idpar |-> List(<<"p1">>),
     l_idparmut |-> List(<<"p1">>), nbvolmut |-> Num(0), nblocmut |-> Num(1),
     l_idlocmut |-> List(<<"l1">>), nbcomm |-> Num(1)]

NumericKeys == {"anneemut", "valeurfonc", "sterr", "sbati",
                "nbpar", "nbparmut", "nbvolmut", "nblocmut", "nbcomm"}
ListKeys == {"l_codinsee", "l_idpar", "l_idparmut", "l_idlocmut"}
StringKeys == {"idmutation", "libtypbien"}

FullyVaried == {"anneemut", "valeurfonc", "nbpar"}
NumericValues(key) ==
    IF key \in FullyVaried
       THEN {Absent(0), Null(0), Num(0), Num(-5), NumStr(12), BadStr, EmptyStr}
       ELSE {Absent(0), Null(0), Num(-5)}

RawEntries ==
    {[BaseEntry EXCEPT ![k] = x] : <<k, x>> \in UNION {{k} \X NumericValues(k) : k \in NumericKeys}}
    \cup {[BaseEntry EXCEPT ![k] = x] : k \in ListKeys, x \in {Absent(<<>>), Null(<<>>)}}
    \cup {[BaseEntry EXCEPT !.l_codinsee = List(<<"75101", "75102">>)]}
    \cup {[BaseEntry EXCEPT ![k] = x] : k \in StringKeys, x \in {Absent(""), Null("")}}
    \cup {[BaseEntry EXCEPT !.vefa = x] : x \in {Absent(FALSE), Null(FALSE), Bool(TRUE)}}
    \cup {[BaseEntry EXCEPT !.valeurfonc = Num(lv), !.sbati = Num(ba), !.sterr = Num(la)] :
             lv \in {0, 10, 250000}, ba \in {0, 3, 100}, la \in {0, 7}}

(***************************************************************************)
(* Floating point.  The amounts and prices are Python floats (IEEE-754      *)
(* doubles) and `sum(xs) / len(xs)` rounds after every addition and after  *)
(* the division.  A double x >= 0 is kept exactly, as the integer x * 2^72 *)
(* in four limbs of 24 bits, least significant first (so x < 2^24, and a   *)
(* non-zero x is at least 2^-7: every double in that range is a multiple   *)
(* of 2^-72).  sum() adds from left to right, as CPython up to 3.11 does.  *)
(***************************************************************************)
LimbBits == 24
LimbBase == 2 ^ LimbBits
Mantissa == 53

FloatOfInt(n) == <<0, 0, 0, n>>

\* exact sum of two such integers
BigAdd(a, b) ==
    LET s1 == a[1] + b[1]
        s2 == a[2] + b[2] + (s1 \div LimbBase)
        s3 == a[3] + b[3] + (s2 \div LimbBase)
        s4 == a[4] + b[4] + (s3 \div LimbBase)
    IN  <<s1 % LimbBase, s2 % LimbBase, s3 % LimbBase, s4>>

\* quotient of such an integer by a small n, rounded down, and whether
\* anything was cut off
BigDiv(a, n) ==
    LET c4 == a[4]
        c3 == (c4 % n) * LimbBase + a[3]
        c2 == (c3 % n) * LimbBase + a[2]
        c1 == (c2 % n) * LimbBase + a[1]
    IN  [q |-> <<c1 \div n, c2 \div n, c3 \div n, c4 \div n>>, inexact |-> (c1 % n) # 0]

\* number of bits of a limb
BitLength(x) == IF x = 0 THEN 0 ELSE CHOOSE b \in 1..31 : 2 ^ (b - 1) <= x /\ x \div 2 < 2 ^ (b - 1)

\* bit k (from 0) of a, and whether a bit below k is set
Bit(a, k) == (a[(k \div LimbBits) + 1] \div (2 ^ (k % LimbBits))) % 2
AnyBelow(a, k) ==
    \/ \E i \in 1..(k \div LimbBits) : a[i] # 0
    \/ (a[(k \div LimbBits) + 1] % (2 ^ (k % LimbBits))) # 0

\* round to nearest, ties to even, to a double: 53 significant bits are kept
RoundToDouble(a, inexact) ==
    IF a = <<0, 0, 0, 0>> THEN a
    ELSE
    LET top == CHOOSE i \in 1..4 : a[i] # 0 /\ \A j \in (i + 1)..4 : a[j] = 0
        drop == LimbBits * (top - 1) + BitLength(a[top]) - Mantissa
    IN  IF drop <= 0 THEN a
        ELSE
        LET w == (drop \div LimbBits) + 1
            kept == [i \in 1..4 |-> IF i < w THEN 0
                                     ELSE IF i = w THEN a[i] - (a[i] % (2 ^ (drop % LimbBits)))
                                     ELSE a[i]]
            ulp == [i \in 1..4 |-> IF i = w THEN 2 ^ (drop % LimbBits) ELSE 0]
            up == /\ Bit(a, drop - 1) = 1
                  /\ (AnyBelow(a, drop - 1) \/ inexact \/ Bit(a, drop) = 1)
        IN  IF up THEN BigAdd(kept, ulp) ELSE kept

\* x + y and x / n of Python
FloatAdd(x, y) == RoundToDouble(BigAdd(x, y), FALSE)
FloatDiv(x, n) == LET d == BigDiv(x, n) IN RoundToDouble(d.q, d.inexact)

\* the float round(value / area, 2) returns: the double nearest to cents / 100
FloatOfCents(cents) == FloatDiv(FloatOfInt(cents), 100)

RECURSIVE FloatSumFrom(_, _)
\* sum(xs): the partial sums, each one rounded
FloatSumFrom(acc, xs) ==
    IF xs = <<>> THEN acc ELSE FloatSumFrom(FloatAdd(acc, Head(xs)), Tail(xs))
FloatSum(xs) == FloatSumFrom(FloatOfInt(0), xs)

\* sum(xs) / len(xs)
Mean(xs) == FloatDiv(FloatSum(xs), Len(xs))

(***************************************************************************)
(* calculate_comprehensive_statistics.  A dict is a function from its keys *)
(* to its values, {} the function with no key.  A price is kept in cents,  *)
(* an amount as its integer value, a mean or a total as the double above.  *)
(* std_dev is not modelled.                                                *)
(***************************************************************************)
\* lines 505, 506: `is not None and > 0`
ValidPrice(e) == ~e.price_per_m2.none /\ e.price_per_m2.cents > 0
ValidLandPrice(e) == ~e.price_per_m2_land.none /\ e.price_per_m2_land.cents > 0

\* line 645: `for insee_code in entry['insee_codes']` raises TypeError on None
Iterable(x) == x.kind = "list"

Valid(entries) == SelectSeq(entries, ValidPrice)
Field(entries, f) == [i \in 1..Len(entries) |-> entries[i][f]]
Prices(entries) == [i \in 1..Len(entries) |-> entries[i].price_per_m2.cents]
Floats(xs) == [i \in 1..Len(xs) |-> FloatOfInt(xs[i])]
PriceFloats(xs) == [i \in 1..Len(xs) |-> FloatOfCents(xs[i])]

\* sorted(xs)[len(xs)//2]
MedianMutant(xs) == SortSeq(xs, <)[(Len(xs) - 1) \div 2 + 1]
Median(xs) == SortSeq(xs, <)[Len(xs) \div 2 + 1]
Min(xs) == CHOOSE x \in {xs[i] : i \in 1..Len(xs)} : \A i \in 1..Len(xs) : x <= xs[i]
Max(xs) == CHOOSE x \in {xs[i] : i \in 1..Len(xs)} : \A i \in 1..Len(xs) : x >= xs[i]

\* lines 537-564
FinancialStats(valid) ==
    LET prices == Prices(valid)
        land_values == Field(valid, "land_value")
        built_areas == Field(valid, "built_area")
    IN  [price_per_m2 |-> [mean |-> Mean(PriceFloats(prices)), median |-> Median(prices),
                           min |-> Min(prices), max |-> Max(prices)],
         land_value |-> [mean |-> Mean(Floats(land_values)), median |-> Median(land_values),
                         min |-> Min(land_values), max |-> Max(land_values),
                         total |-> FloatSum(Floats(land_values))],
         built_area |-> [mean |-> Mean(Floats(built_areas)), median |-> Median(built_areas),
                         min |-> Min(built_areas), max |-> Max(built_areas),
                         total |-> FloatSum(Floats(built_areas))]]

\* lines 567-572, 592-597: the entries of one group, in input order
Group(entries, f, key) == SelectSeq(entries, LAMBDA e : e[f] = key)
GroupKeys(entries, f) == {entries[i][f] : i \in 1..Len(entries)}
ReportedKeys(entries, f) == {key \in GroupKeys(entries, f) : Valid(Group(entries, f, key)) # <<>>}

\* lines 574-589
PropertyTypeEntryMutant(entries) ==
    LET valid_entries == Valid(entries)
        prices == Prices(valid_entries)
    IN  [count |-> Len(valid_entries),
         valid_price_count |-> Len(valid_entries),
         price_per_m2 |-> [mean |-> Mean(PriceFloats(prices)), median |-> Median(prices),
                           min |-> Min(prices), max |-> Max(prices)],
         avg_built_area |-> Mean(Floats(Field(valid_entries, "built_area"))),
         avg_land_value |-> Mean(Floats(Field(valid_entries, "land_value")))]
PropertyTypeEntry(entries) ==
    LET valid_entries == Valid(entries)
        prices == Prices(valid_entries)
    IN  [count |-> Len(entries),
         valid_price_count |-> Len(valid_entries),
         price_per_m2 |-> [mean |-> Mean(PriceFloats(prices)), median |-> Median(prices),
                           min |-> Min(prices), max |-> Max(prices)],
         avg_built_area |-> Mean(Floats(Field(valid_entries, "built_area"))),
         avg_land_value |-> Mean(Floats(Field(valid_entries, "land_value")))]

\* lines 599-608, 617-634
AverageEntryMutant(entries) ==
    LET valid_entries == Valid(entries)
    IN  [count |-> Len(entries),
         valid_price_count |-> Len(entries),
         avg_price_per_m2 |-> Mean(PriceFloats(Prices(valid_entries))),
         avg_land_value |-> Mean(Floats(Field(valid_entries, "land_value")))]
AverageEntry(entries) ==
    LET valid_entries == Valid(entries)
    IN  [count |-> Len(entries),
         valid_price_count |-> Len(valid_entries),
         avg_price_per_m2 |-> Mean(PriceFloats(Prices(valid_entries))),
         avg_land_value |-> Mean(Floats(Field(valid_entries, "land_value")))]

\* lines 611-612
Partition(entries, key) ==
    SelectSeq(entries, LAMBDA e : IF key = "vefa" THEN e.is_vefa ELSE ~e.is_vefa)
PartitionKeysMutant(entries) == {key \in {"classic"} : Valid(Partition(entries, key)) # <<>>}
PartitionKeys(entries) ==
    {key \in {"vefa", "classic"} : Valid(Partition(entries, key)) # <<>>}

RECURSIVE Occurrences(_, _)
Occurrences(l, code) ==
    IF l = <<>> THEN 0
    ELSE (IF Head(l) = code THEN 1 ELSE 0) + Occurrences(Tail(l), code)

RECURSIVE CommuneCount(_, _)
\* lines 645-648, 652: one append per occurrence of the code in an entry's list
CommuneCount(entries, code) ==
    IF entries = <<>> THEN 0
    ELSE Occurrences(Head(entries).insee_codes.v, code) + CommuneCount(Tail(entries), code)

CodesOf(entries) ==
    UNION {{entries[i].insee_codes.v[j] : j \in 1..Len(entries[i].insee_codes.v)} :
              i \in 1..Len(entries)}

\* lines 637-655
GeographicStats(entries) ==
    [departments |-> [dept \in GroupKeys(entries, "department_code") |->
                         Len(Group(entries, "department_code", dept))],
     communes |-> [code \in CodesOf(entries) |-> CommuneCount(entries, code)],
     nb_unique_departments |-> Cardinality(GroupKeys(entries, "department_code")),
     nb_unique_communes |-> Cardinality(CodesOf(entries))]

\* no call has returned
NoReport == [set |-> FALSE, val |-> <<>>]

\* lines 501-502: `return {}`
EmptyReportMutant ==
    [set |-> TRUE,
     val |-> [total_transactions |-> 0, valid_price_transactions |-> 0,
              valid_land_price_transactions |-> 0, year_range |-> <<>>,
              financial_stats |-> <<>>, by_property_type |-> <<>>,
              by_mutation_nature |-> <<>>, vefa_vs_classic |-> <<>>,
              geographic_stats |-> <<>>]]
EmptyReport == [set |-> TRUE, val |-> <<>>]

\* line 734: `if not stats or stats['total_transactions'] == 0`, the test
\* print_comprehensive_statistics uses for "no data"
NoData(report) == DOMAIN report.val = {} \/ report.val.total_transactions = 0

\* lines 505-657, for a non-empty list
Report(entries) ==
    [set |-> TRUE,
     val |->
       [total_transactions |-> Len(entries),
        valid_price_transactions |-> Len(Valid(entries)),
        valid_land_price_transactions |-> Len(SelectSeq(entries, ValidLandPrice)),
        year_range |-> [min |-> Min(Field(entries, "mutation_year")),
                        max |-> Max(Field(entries, "mutation_year"))],
        financial_stats |-> IF Valid(entries) # <<>> THEN FinancialStats(Valid(entries)) ELSE <<>>,
        by_property_type |->
            [key \in ReportedKeys(entries, "property_type_label") |->
                PropertyTypeEntry(Group(entries, "property_type_label", key))],
        by_mutation_nature |->
            [key \in ReportedKeys(entries, "mutation_nature") |->
                AverageEntry(Group(entries, "mutation_nature", key))],
        vefa_vs_classic |->
            [key \in PartitionKeys(entries) |-> AverageEntry(Partition(entries, key))],
        geographic_stats |-> GeographicStats(entries)]]

(***************************************************************************)
(* refine_dvf_data: one action per iteration of `for entry in dvf_entries` *)
(***************************************************************************)
\* lines 400-415: a conversion of the try block fails; the entry is skipped
RefineSkip(entry) ==
    /\ rpc = "loop"
    /\ Len(dvf_entries) < MaxEntries
    /\ TryError(entry) # "none"
    /\ dvf_entries' = Append(dvf_entries, entry)
    /\ skipped' = skipped + 1
    /\ UNCHANGED <<rpc, refined_entries, rerror, stats>>

\* lines 428-439: a count conversion raises outside any try block; the
\* exception leaves refine_dvf_data
RefineRaise(entry) ==
    /\ rpc = "loop"
    /\ Len(dvf_entries) < MaxEntries
    /\ TryError(entry) = "none"
    /\ CountError(entry) # "none"
    /\ dvf_entries' = Append(dvf_entries, entry)
    /\ rpc' = "raised"
    /\ rerror' = CountError(entry)
    /\ UNCHANGED <<refined_entries, skipped, stats>>

\* lines 400-493: the entry is refined and appended
RefineAppend(entry) ==
    /\ rpc = "loop"
    /\ Len(dvf_entries) < MaxEntries
    /\ TryError(entry) = "none"
    /\ CountError(entry) = "none"
    /\ dvf_entries' = Append(dvf_entries, entry)
    /\ refined_entries' = Append(refined_entries, Refined(entry))
    /\ UNCHANGED <<rpc, rerror, skipped, stats>>

\* lines 396-397, 495: the input is exhausted
RefineReturn ==
    /\ rpc = "loop"
    /\ rpc' = "returned"
    /\ UNCHANGED <<dvf_entries, refined_entries, rerror, skipped, stats>>

\* lines 497-657, called on what refine_dvf_data returned (line 1017)
Statistics ==
    /\ rpc = "returned"
    /\ IF refined_entries = <<>>
          THEN rpc' = "stats_done" /\ stats' = EmptyReport /\ UNCHANGED rerror
          ELSE IF \A i \in 1..Len(refined_entries) : Iterable(refined_entries[i].insee_codes)
                  THEN /\ rpc' = "stats_done"
                       /\ stats' = Report(refined_entries)
                       /\ UNCHANGED rerror
                  ELSE /\ rpc' = "stats_raised"
                       /\ rerror' = "TypeError"
                       /\ UNCHANGED stats
    /\ UNCHANGED <<dvf_entries, refined_entries, skipped>>

FetchIdle ==
    /\ bbox = ""
    /\ min_year = ""
    /\ chain = [n |-> 1, loop |-> 0]
    /\ pc = "start"
    /\ api_url = 0
    /\ params = FALSE
    /\ results = <<>>
    /\ page_count = 0
    /\ retries = 0
    /\ error = "none"
    /\ out = NoOut
    /\ reqLog = <<>>
    /\ sleepLog = <<>>

RefineIdle ==
    /\ dvf_entries = <<>>
    /\ rpc = "loop"
    /\ refined_entries = <<>>
    /\ rerror = "none"
    /\ skipped = 0
    /\ stats = NoReport

MainIdle == calls = <<>>

RefineNext ==
    \/ \E entry \in RawEntries : RefineSkip(entry) /\ UNCHANGED <<fetchVars, mainVars>>
    \/ \E entry \in RawEntries : RefineRaise(entry) /\ UNCHANGED <<fetchVars, mainVars>>
    \/ \E entry \in RawEntries : RefineAppend(entry) /\ UNCHANGED <<fetchVars, mainVars>>
    \/ RefineReturn /\ UNCHANGED <<fetchVars, mainVars>>

RefineInit == FetchIdle /\ RefineIdle /\ MainIdle

RefineSpec == RefineInit /\ [][RefineNext]_vars

(***************************************************************************)
(* calculate_comprehensive_statistics applied to bounded lists of refined  *)
(* entries: the refinements of a few raw entries with integer amounts that *)
(* differ in price, property type, VEFA flag and location.                 *)
(***************************************************************************)
MaxRecords == 4

Sale(value, built) == [BaseEntry EXCEPT !.valeurfonc = Num(value), !.sbati = Num(built)]

StatsEntries ==
    {Sale(10000, 100),
     [Sale(20000, 100) EXCEPT !.vefa = Bool(TRUE), !.anneemut = Num(2023),
                              !.l_codinsee = List(<<"75101", "75102">>)],
     [Sale(30000, 100) EXCEPT !.libtypbien = Str("Maison"), !.libnatmut = Str("Echange"),
                              !.l_codinsee = Absent(<<>>), !.coddep = Null("")],
     [Sale(40000, 100) EXCEPT !.libtypbien = Absent(""), !.coddep = Str("92"),
                              !.l_codinsee = List(<<"92050">>)],
     Sale(300000, 100),
     [Sale(150000, 0) EXCEPT !.vefa = Bool(TRUE)],
     [Sale(2, 3) EXCEPT !.libtypbien = Str("Maison")]}

\* the caller puts one more refined entry into the list it will pass
StatsInput(entry) ==
    /\ rpc = "returned"
    /\ Len(refined_entries) < MaxRecords
    /\ refined_entries' = Append(refined_entries, Refined(entry))
    /\ UNCHANGED <<dvf_entries, rpc, rerror, skipped, stats>>

StatsInit ==
    /\ FetchIdle
    /\ MainIdle
    /\ dvf_entries = <<>>
    /\ rpc = "returned"
    /\ refined_entries = <<>>
    /\ rerror = "none"
    /\ skipped = 0
    /\ stats = NoReport

StatsNext ==
    \/ \E entry \in StatsEntries : StatsInput(entry) /\ UNCHANGED <<fetchVars, mainVars>>
    \/ Statistics /\ UNCHANGED <<fetchVars, mainVars>>

StatsSpec == StatsInit /\ [][StatsNext]_vars

(***************************************************************************)
(* The fetch, with the refinement idle.                                    *)
(***************************************************************************)
Init == FetchInit /\ RefineIdle /\ MainIdle

Next ==
    \/ Start /\ UNCHANGED <<refineVars, mainVars>>
    \/ RequestOk /\ UNCHANGED <<refineVars, mainVars>>
    \/ \E status \in HttpErrorStatuses :
          RequestHTTPError(status) /\ UNCHANGED <<refineVars, mainVars>>
    \/ \E exc \in RequestExceptions : RequestFailed(exc) /\ UNCHANGED <<refineVars, mainVars>>

Spec == Init /\ [][Next]_vars

\* every request is eventually answered and the function keeps running
LiveSpec == Spec /\ WF_vars(Next)

(***************************************************************************)
(* main, lines 1002-1018: fetch_all_pages_dvf_api, refine_dvf_data and     *)
(* calculate_comprehensive_statistics called one after the other with no   *)
(* try block around them.  The fetch runs request by request as above; the *)
(* other two are one call each.  The printing between them raises on none  *)
(* of the records below and is left out.                                   *)
(***************************************************************************)
\* lines 285-286: the raw entry behind a fetched record; one record has a null
\* INSEE list, one a year that is no number
RawOf(id) ==
    LET entry == [BaseEntry EXCEPT !.idmutation = Num(id)] IN
    CASE id = 21 -> [entry EXCEPT !.l_codinsee = Null(<<>>)]
      [] id = 22 -> [entry EXCEPT !.anneemut = BadStr]
      [] OTHER -> entry

RECURSIVE RefineFrom(_, _, _)
\* lines 399-495: the loop of refine_dvf_data over the entries that are left
RefineFrom(entries, acc, nskipped) ==
    IF entries = <<>> THEN [err |-> "none", refined |-> acc, skipped |-> nskipped]
    ELSE IF TryError(Head(entries)) # "none"
            THEN RefineFrom(Tail(entries), acc, nskipped + 1)
    ELSE IF CountError(Head(entries)) # "none"
            THEN [err |-> CountError(Head(entries)), refined |-> acc, skipped |-> nskipped]
    ELSE RefineFrom(Tail(entries), Append(acc, Refined(Head(entries))), nskipped)

\* line 1003: the assignment happens only when the call returns; an exception
\* leaves main
FetchReturnedMutant == pc \in {"returned", "raised"}
FetchReturned == pc = "returned"

\* line 1003: the call of fetch_all_pages_dvf_api
MainFetch ==
    /\ calls = <<>>
    /\ Start
    /\ calls' = <<"fetch_all_pages_dvf_api">>
    /\ UNCHANGED refineVars

\* line 1004: refine_dvf_data(dvf_entries)
MainRefine ==
    /\ calls = <<"fetch_all_pages_dvf_api">>
    /\ FetchReturned
    /\ LET input == [i \in 1..Len(out.val) |-> RawOf(out.val[i])]
           run == RefineFrom(input, <<>>, 0)
       IN  /\ dvf_entries' = input
           /\ refined_entries' = run.refined
           /\ skipped' = run.skipped
           /\ rerror' = run.err
           /\ rpc' = IF run.err = "none" THEN "returned" ELSE "raised"
    /\ calls' = Append(calls, "refine_dvf_data")
    /\ UNCHANGED <<fetchVars, stats>>

\* line 1017: calculate_comprehensive_statistics(refined_entries)
MainStatistics ==
    /\ calls = <<"fetch_all_pages_dvf_api", "refine_dvf_data">>
    /\ Statistics
    /\ calls' = Append(calls, "calculate_comprehensive_statistics")
    /\ UNCHANGED fetchVars

MainNext ==
    \/ MainFetch
    \/ RequestOk /\ UNCHANGED <<refineVars, mainVars>>
    \/ \E status \in HttpErrorStatuses :
          RequestHTTPError(status) /\ UNCHANGED <<refineVars, mainVars>>
    \/ \E exc \in RequestExceptions : RequestFailed(exc) /\ UNCHANGED <<refineVars, mainVars>>
    \/ MainRefine
    \/ MainStatistics

MainSpec == Init /\ [][MainNext]_vars

(***************************************************************************)
(* Reading the history of a fetch.                                         *)
(***************************************************************************)
RECURSIVE FailsBefore(_, _)
\* the number of failed attempts in a row right before attempt i
FailsBefore(log, i) ==
    IF i = 1 \/ log[i - 1].answer = "200" THEN 0 ELSE 1 + FailsBefore(log, i - 1)

RECURSIVE Fetched(_)
\* the records of the successful attempts, in order
Fetched(log) ==
    IF log = <<>> THEN <<>>
    ELSE LET n == Len(log)
             front == Fetched(SubSeq(log, 1, n - 1))
         IN IF log[n].answer = "200" THEN front \o PageResults(log[n].url) ELSE front

RECURSIVE ChainRecords(_)
\* the records of pages 1..n
ChainRecords(n) == IF n = 0 THEN <<>> ELSE ChainRecords(n - 1) \o PageResults(n)

SleepsAfter(i) == SelectSeq(sleepLog, LAMBDA s : s.after = i)

AllTransient(i, k) == \A j \in (i - k)..(i - 1) : reqLog[j].answer \in Transient

SamePage(i, k) == \A j \in (i - k)..(i - 1) : reqLog[j].url = reqLog[i].url
                                              /\ reqLog[j].params = reqLog[i].params

\* C1: when the attempts for one page fail k times in a row with a transient
\* failure and the next attempt succeeds, the fetch uses the successful page's
\* data and sleeps exactly k times, the m-th sleep lasting 2^m seconds; no sleep
\* lasts 8s or more, none precedes a first attempt and none follows a success.
C1_BackoffThenSuccess ==
    /\ \A s \in 1..Len(sleepLog) :
          /\ sleepLog[s].secs < 8
          /\ sleepLog[s].after \in 1..Len(reqLog)
          /\ reqLog[sleepLog[s].after].answer # "200"
          /\ s > 1 => sleepLog[s - 1].after < sleepLog[s].after
    /\ \A i \in 1..Len(reqLog) :
          LET k == FailsBefore(reqLog, i) IN
          (reqLog[i].answer = "200" /\ k >= 1 /\ AllTransient(i, k)) =>
              /\ k \in {1, 2}
              /\ SamePage(i, k)
              /\ \A m \in 1..k :
                    SleepsAfter(i - k + m - 1) = <<[secs |-> 2 ^ m, after |-> i - k + m - 1]>>
              /\ SleepsAfter(i) = <<>>
              /\ results = Fetched(reqLog)
              /\ Len(sleepLog) >= k

\* a page that succeeded after one transient failure, and a page that
\* succeeded after two
C1_Witness ==
    /\ \E i \in 1..Len(reqLog) :
          reqLog[i].answer = "200" /\ FailsBefore(reqLog, i) = 1 /\ AllTransient(i, 1)
    /\ \E i \in 1..Len(reqLog) :
          reqLog[i].answer = "200" /\ FailsBefore(reqLog, i) = 2 /\ AllTransient(i, 2)
    /\ Len(results) > 0

\* C2: a page whose attempts fail with a transient failure is attempted at most
\* 3 times; when the third attempt in a row fails the fetch ends with APIError
\* after exactly 3 requests for that page and exactly 2 sleeps, none after the
\* final failure.
C2_ThreeAttemptsThenAPIError ==
    \A i \in 1..Len(reqLog) :
        LET k == FailsBefore(reqLog, i) IN
        /\ k <= 2
        /\ (k = 2 /\ reqLog[i].answer \in Transient /\ AllTransient(i, 2)) =>
              /\ i = Len(reqLog)
              /\ pc = "raised"
              /\ error = "APIError"
              /\ SamePage(i, 2)
              /\ Len(SleepsAfter(i - 2)) = 1
              /\ Len(SleepsAfter(i - 1)) = 1
              /\ SleepsAfter(i) = <<>>
        /\ (k < 2 /\ reqLog[i].answer \in Transient /\ i = Len(reqLog)) => pc = "loop"

\* the second page gave three transient failures in a row
C2_Witness ==
    /\ pc = "raised"
    /\ Len(reqLog) = 4
    /\ reqLog[1].answer = "200"
    /\ AllTransient(5, 3)
    /\ Len(sleepLog) = 2

\* C3: an HTTP 403 on any page, whatever retry budget remains, ends the fetch at
\* once with APIError: no further request and no sleep after the 403.
C3_ForbiddenIsFatal ==
    \A i \in 1..Len(reqLog) :
        reqLog[i].answer = "403" =>
            /\ i = Len(reqLog)
            /\ pc = "raised"
            /\ error = "APIError"
            /\ SleepsAfter(i) = <<>>
            /\ ~out.set

\* a 403 on the second page, on a retry (one attempt of the budget spent)
C3_Witness ==
    \E i \in 1..Len(reqLog) :
        /\ reqLog[i].answer = "403"
        /\ reqLog[i].url = 2
        /\ FailsBefore(reqLog, i) = 1

\* C4: an HTTP 404 is never retried: no further request follows it, and only a
\* transient failure is followed by a retry.
C4_NotFoundNeverRetried ==
    \A i \in 1..Len(reqLog) :
        /\ reqLog[i].answer = "404" => i = Len(reqLog)
        /\ (i > 1 /\ reqLog[i - 1].answer # "200") => reqLog[i - 1].answer \in Transient

\* C5: the fetch is all-or-nothing: the caller receives either the records of
\* every page of the chain, or an error and no records.
C5_AllOrNothing ==
    /\ out.set => /\ pc = "returned"
                  /\ error = "none"
                  /\ chain.loop = 0
                  /\ out.val = ChainRecords(chain.n)
    /\ pc = "returned" => out.set
    /\ pc = "raised" => ~out.set /\ error \in {"APIError", "ValidationError"}

\* a fetch that failed with records of an earlier page already accumulated
C5_Witness ==
    /\ pc = "raised"
    /\ error = "APIError"
    /\ Len(results) > 0
    /\ ~out.set

(***************************************************************************)
(* Reading a refinement.                                                   *)
(***************************************************************************)
Missing(x) == x.kind \in {"absent", "null"}

\* the refined field each numeric source key ends in
FieldOf ==
    [k \in NumericKeys |->
        CASE k = "anneemut" -> "mutation_year"
          [] k = "valeurfonc" -> "land_value"
          [] k = "sterr" -> "land_area"
          [] k = "sbati" -> "built_area"
          [] k = "nbpar" -> "nb_parcels"
          [] k = "nbparmut" -> "nb_parcels_mutated"
          [] k = "nbvolmut" -> "nb_volumes_mutated"
          [] k = "nblocmut" -> "nb_locals_mutated"
          [] k = "nbcomm" -> "nb_communes"]

Abs(x) == IF x < 0 THEN -x ELSE x

\* price (in cents) is value / area exactly
ExactQuotient(price, value, area) == ~price.none /\ price.cents * area = 100 * value

\* price (in cents) is the hundredth nearest to value / area
NearestCent(price, value, area) ==
    ~price.none /\ 2 * Abs(price.cents * area - 100 * value) <= area

\* C6: refine_dvf_data never fails as a whole, whatever fields of a raw entry
\* are absent, null or non-numeric, the counts included: it raises no error,
\* and every entry is either skipped or refined.
C6_RefineNeverFails ==
    /\ rpc # "raised"
    /\ Len(refined_entries) + skipped = Len(dvf_entries)

\* C7 as stated: price_per_m2 is absent when built_area = 0 or land_value = 0
\* and equals land_value / built_area when both are > 0; price_per_m2_land
\* likewise with land_area.
C7_PriceIsExactQuotient ==
    \A i \in 1..Len(refined_entries) :
        LET r == refined_entries[i] IN
        /\ (r.built_area = 0 \/ r.land_value = 0) => r.price_per_m2.none
        /\ (r.built_area > 0 /\ r.land_value > 0) =>
               ExactQuotient(r.price_per_m2, r.land_value, r.built_area)
        /\ (r.land_area = 0 \/ r.land_value = 0) => r.price_per_m2_land.none
        /\ (r.land_area > 0 /\ r.land_value > 0) =>
               ExactQuotient(r.price_per_m2_land, r.land_value, r.land_area)

\* C7 as amended: price_per_m2 is absent when built_area = 0 or land_value = 0
\* and is land_value / built_area rounded to the nearest hundredth when both are
\* > 0 (100 and 250000 give 2500.00); price_per_m2_land likewise with land_area.
C7_PriceIsRoundedQuotient ==
    \A i \in 1..Len(refined_entries) :
        LET r == refined_entries[i] IN
        /\ (r.built_area = 0 \/ r.land_value = 0) => r.price_per_m2.none
        /\ (r.built_area > 0 /\ r.land_value > 0) =>
               NearestCent(r.price_per_m2, r.land_value, r.built_area)
        /\ (r.built_area = 100 /\ r.land_value = 250000) => r.price_per_m2 = Some(250000)
        /\ (r.land_area = 0 \/ r.land_value = 0) => r.price_per_m2_land.none
        /\ (r.land_area > 0 /\ r.land_value > 0) =>
               NearestCent(r.price_per_m2_land, r.land_value, r.land_area)

\* an entry whose price had to be rounded, next to an entry without a value
C7_Witness ==
    /\ \E i \in 1..Len(refined_entries) :
          LET r == refined_entries[i] IN
          /\ r.land_value = 10 /\ r.built_area = 3 /\ r.land_area = 7
          /\ r.price_per_m2 = Some(333)
          /\ r.price_per_m2_land = Some(143)
    /\ \E i \in 1..Len(refined_entries) :
          LET r == refined_entries[i] IN
          /\ r.land_value = 0 /\ r.built_area > 0 /\ r.land_area > 0
          /\ r.price_per_m2.none /\ r.price_per_m2_land.none

\* C8: every refined entry has land_value, land_area and built_area >= 0 and
\* its five counts >= 0, whatever the raw input, negative numbers included.
C8_NonNegativeFields ==
    \A i \in 1..Len(refined_entries) :
        \A k \in NumericKeys \ {"anneemut"} : refined_entries[i][FieldOf[k]] >= 0

\* C9: a raw entry whose numeric source values are each a number or missing
\* (key absent, or null) is retained, with every missing field set to 0, the
\* same for every numeric field and for absent as for null.
C9_MissingNumericIsZero ==
    (\A i \in 1..Len(dvf_entries) :
        \A k \in NumericKeys : Missing(dvf_entries[i][k]) \/ dvf_entries[i][k].kind = "num")
    =>  /\ rpc # "raised"
        /\ Len(refined_entries) = Len(dvf_entries)
        /\ \A i \in 1..Len(dvf_entries) : \A k \in NumericKeys :
              Missing(dvf_entries[i][k]) => refined_entries[i][FieldOf[k]] = 0

\* C10: in every refined entry the four list fields are sequences, never null,
\* so the statistics over the output of refine_dvf_data always return a report.
C10_ListFieldsAreSequences ==
    /\ \A i \in 1..Len(refined_entries) :
          LET r == refined_entries[i] IN
          /\ r.insee_codes.kind = "list"
          /\ r.parcel_ids.kind = "list"
          /\ r.mutated_parcel_ids.kind = "list"
          /\ r.local_ids.kind = "list"
    /\ rpc # "stats_raised"
    /\ rpc = "stats_done" => stats.set

\* int(entry.get('anneemut', 0)) accepts a number, a numeric string and a
\* missing key; float(x or 0.0) also accepts null and ""
YearCoercible(x) == x.kind \in {"absent", "num", "numstr"}
AmountCoercible(x) == x.kind \in {"absent", "null", "emptystr", "num", "numstr"}
Coercible(entry) ==
    /\ YearCoercible(entry.anneemut)
    /\ AmountCoercible(entry.valeurfonc)
    /\ AmountCoercible(entry.sterr)
    /\ AmountCoercible(entry.sbati)

Sections == {"financial_stats", "by_property_type", "by_mutation_nature",
             "vefa_vs_classic", "geographic_stats"}

\* a section that is missing or is an empty dict
Unpopulated(report, section) ==
    section \in DOMAIN report.val => DOMAIN report.val[section] = {}

\* C12: calculate_comprehensive_statistics applied to the empty sequence
\* raises nothing and returns a report whose total_transactions is 0 and
\* whose five sections are not populated.
C12_EmptyInputZeroedReport ==
    rpc \in {"stats_done", "stats_raised"} /\ refined_entries = <<>> =>
        /\ rpc = "stats_done"
        /\ stats.set
        /\ "total_transactions" \in DOMAIN stats.val
        /\ stats.val.total_transactions = 0
        /\ \A section \in Sections : Unpopulated(stats, section)

\* C12 as the code has it: applied to the empty sequence the function raises
\* nothing and returns the empty dict, with no total_transactions key and no
\* section, which print_comprehensive_statistics reads as "no data"; and it
\* returns the empty dict for no other input.
C12_EmptyInputEmptyDict ==
    /\ rpc \in {"stats_done", "stats_raised"} /\ refined_entries = <<>> =>
          /\ rpc = "stats_done"
          /\ stats.set
          /\ DOMAIN stats.val = {}
          /\ NoData(stats)
          /\ \A section \in Sections : Unpopulated(stats, section)
    /\ rpc = "stats_done" /\ refined_entries # <<>> =>
          /\ stats.val.total_transactions = Len(refined_entries)
          /\ ~NoData(stats)

\* the call on the empty list has returned
C12_Witness ==
    /\ rpc = "stats_done"
    /\ refined_entries = <<>>
    /\ stats.set

\* m is the element at index floor(n/2), counted from 0, of the ascending sort
\* of xs: at most floor(n/2) values lie below it, more than that do not exceed it
AtMiddleIndex(m, xs) ==
    /\ \E i \in 1..Len(xs) : xs[i] = m
    /\ Cardinality({i \in 1..Len(xs) : xs[i] < m}) <= Len(xs) \div 2
    /\ Cardinality({i \in 1..Len(xs) : xs[i] <= m}) > Len(xs) \div 2

\* the prices 100, 200, 300, 400, in cents, in some order
OneToFourHundred(prices) ==
    /\ Len(prices) = 4
    /\ {prices[i] : i \in 1..4} = {10000, 20000, 30000, 40000}

\* C13: every median of the report (price per m2, land value and built area
\* of the valid-price records, and the price of each property type) is the
\* element at index floor(n/2) of the ascending sort of its n values, not the
\* average of the two middle ones: 300 for the prices 100, 200, 300, 400, and
\* the value itself for n = 1.
C13_MedianIsUpperMiddle ==
    rpc = "stats_done" /\ Valid(refined_entries) # <<>> =>
        LET valid == Valid(refined_entries)
            financial == stats.val.financial_stats
            types == stats.val.by_property_type
        IN  /\ AtMiddleIndex(financial.price_per_m2.median, Prices(valid))
            /\ AtMiddleIndex(financial.land_value.median, Field(valid, "land_value"))
            /\ AtMiddleIndex(financial.built_area.median, Field(valid, "built_area"))
            /\ \A key \in DOMAIN types :
                  AtMiddleIndex(types[key].price_per_m2.median,
                                Prices(Valid(Group(refined_entries, "property_type_label", key))))
            /\ OneToFourHundred(Prices(valid)) => financial.price_per_m2.median = 30000
            /\ Len(valid) = 1 => financial.price_per_m2.median = valid[1].price_per_m2.cents

\* the report of four records priced 400, 100, 300, 200 in that order
C13_Witness ==
    /\ rpc = "stats_done"
    /\ Len(refined_entries) = 4
    /\ Prices(refined_entries) = <<40000, 10000, 30000, 20000>>
    /\ stats.val.financial_stats.price_per_m2.median = 30000

\* the entries in the order a permutation p of their indices gives
Permuted(entries, p) == [i \in 1..Len(entries) |-> entries[p[i]]]

\* C14: calculate_comprehensive_statistics is order-independent: the report
\* of a non-empty list of refined entries with integer amounts equals, in
\* every count, year range, financial statistic, group entry and geographic
\* count, the report of every permutation of the list.
C14_OrderIndependent ==
    rpc = "stats_done" /\ refined_entries # <<>> =>
        \A p \in Permutations(1..Len(refined_entries)) :
            Report(Permuted(refined_entries, p)) = stats

RECURSIVE SumOfCounts(_)
\* the sum of the values of a dict of counts
SumOfCounts(counts) ==
    IF DOMAIN counts = {} THEN 0
    ELSE LET key == CHOOSE k \in DOMAIN counts : TRUE
         IN  counts[key] + SumOfCounts([k \in DOMAIN counts \ {key} |-> counts[k]])

\* the records that list an INSEE code
Listing(entries, code) ==
    {i \in 1..Len(entries) : \E j \in 1..Len(entries[i].insee_codes.v) :
                                 entries[i].insee_codes.v[j] = code}

\* C15: every record adds 1 to the commune counter of each of its INSEE
\* codes, so a commune's count is the number of records that list it; and for
\* a non-empty input the commune counts sum to at least total_transactions.
C15_CommuneFanOut ==
    rpc = "stats_done" /\ refined_entries # <<>> =>
        LET communes == stats.val.geographic_stats.communes IN
        /\ DOMAIN communes = CodesOf(refined_entries)
        /\ \A code \in DOMAIN communes :
              communes[code] = Cardinality(Listing(refined_entries, code))
        /\ SumOfCounts(communes) >= stats.val.total_transactions

\* the records with a given property-type label, and those of them with a
\* price that is present and positive
OfType(label) == {i \in 1..Len(refined_entries) : refined_entries[i].property_type_label = label}
PricedOfType(label) ==
    {i \in OfType(label) : /\ ~refined_entries[i].price_per_m2.none
                            /\ refined_entries[i].price_per_m2.cents > 0}
PricedOfTypeSeq(label) ==
    SelectSeq(refined_entries, LAMBDA e : /\ e.property_type_label = label
                                          /\ ~e.price_per_m2.none
                                          /\ e.price_per_m2.cents > 0)

\* C16: a property-type label, the absent one included, has an entry in
\* by_property_type exactly when a record of that type has a price that is
\* present and positive; the entry's count is the number of all records of the
\* type, its valid_price_count the number of the priced ones, and its price
\* mean, avg_built_area and avg_land_value are taken over the priced ones
\* only: a flat priced 3000 and a flat without price give count 2,
\* valid_price_count 1 and mean 3000.
C16_PropertyTypeEntries ==
    rpc = "stats_done" /\ refined_entries # <<>> =>
        LET types == stats.val.by_property_type
            labels == {refined_entries[i].property_type_label : i \in 1..Len(refined_entries)}
        IN  /\ DOMAIN types = {label \in labels : PricedOfType(label) # {}}
            /\ \A label \in DOMAIN types :
                  LET priced == PricedOfTypeSeq(label) IN
                  /\ types[label].count = Cardinality(OfType(label))
                  /\ types[label].valid_price_count = Cardinality(PricedOfType(label))
                  /\ types[label].price_per_m2.mean = Mean(PriceFloats(Prices(priced)))
                  /\ types[label].avg_built_area = Mean(Floats(Field(priced, "built_area")))
                  /\ types[label].avg_land_value = Mean(Floats(Field(priced, "land_value")))
            /\ (/\ Cardinality(OfType(Str("Appartement"))) = 2
                 /\ \E i \in OfType(Str("Appartement")) :
                       /\ PricedOfType(Str("Appartement")) = {i}
                       /\ refined_entries[i].price_per_m2.cents = 300000)
                => /\ types[Str("Appartement")].count = 2
                   /\ types[Str("Appartement")].valid_price_count = 1
                   /\ types[Str("Appartement")].price_per_m2.mean = FloatOfInt(3000)

\* the report of a flat without price followed by a flat priced 3000
C16_Witness ==
    /\ rpc = "stats_done"
    /\ Len(refined_entries) = 2
    /\ \A i \in 1..2 : refined_entries[i].property_type_label = Str("Appartement")
    /\ refined_entries[1].price_per_m2.none
    /\ refined_entries[2].price_per_m2 = Some(300000)
    /\ stats.val.total_transactions = 2
    /\ stats.val.valid_price_transactions = 1

\* the records with a given VEFA flag, and those of them with a price that is
\* present and positive
Flagged(flag) == {i \in 1..Len(refined_entries) : refined_entries[i].is_vefa = flag}
PricedFlagged(flag) ==
    {i \in Flagged(flag) : /\ ~refined_entries[i].price_per_m2.none
                            /\ refined_entries[i].price_per_m2.cents > 0}

\* C17: 'vefa' (respectively 'classic') is a key of vefa_vs_classic exactly
\* when a record with is_vefa true (respectively false) has a price that is
\* present and positive: a partition without records, or with records but
\* without a priced one, is absent from the report; the count of a present
\* entry is the size of the whole partition.
C17_VefaPartitions ==
    rpc = "stats_done" /\ refined_entries # <<>> =>
        LET partitions == stats.val.vefa_vs_classic IN
        /\ DOMAIN partitions \subseteq {"vefa", "classic"}
        /\ "vefa" \in DOMAIN partitions <=> PricedFlagged(TRUE) # {}
        /\ "classic" \in DOMAIN partitions <=> PricedFlagged(FALSE) # {}
        /\ "vefa" \in DOMAIN partitions =>
              /\ partitions["vefa"].count = Cardinality(Flagged(TRUE))
              /\ partitions["vefa"].valid_price_count = Cardinality(PricedFlagged(TRUE))
        /\ "classic" \in DOMAIN partitions =>
              /\ partitions["classic"].count = Cardinality(Flagged(FALSE))
              /\ partitions["classic"].valid_price_count = Cardinality(PricedFlagged(FALSE))

\* a report with a 'vefa' entry whose partition holds a record without price,
\* and no 'classic' entry
C17_Witness ==
    /\ rpc = "stats_done"
    /\ Len(refined_entries) = 2
    /\ DOMAIN stats.val.vefa_vs_classic = {"vefa"}
    /\ stats.val.vefa_vs_classic["vefa"].count = 2
    /\ stats.val.vefa_vs_classic["vefa"].valid_price_count = 1

\* one field of every entry of a breakdown, as a dict of counts
Column(breakdown, f) == [key \in DOMAIN breakdown |-> breakdown[key][f]]

\* some property type has records but none with a valid price
SomeTypeUnpriced ==
    \E i \in 1..Len(refined_entries) :
        PricedOfType(refined_entries[i].property_type_label) = {}

\* C22: in the report of a non-empty input the valid_price_count values of
\* by_property_type sum to valid_price_transactions, and so do those of
\* by_mutation_nature and of vefa_vs_classic; the department counts sum to
\* total_transactions; the count values of by_property_type sum to at most
\* total_transactions, and to less exactly when some property type has no
\* valid-price record.
C22_BreakdownsPartition ==
    rpc = "stats_done" /\ refined_entries # <<>> =>
        LET report == stats.val
            typeCounts == SumOfCounts(Column(report.by_property_type, "count"))
        IN  /\ SumOfCounts(Column(report.by_property_type, "valid_price_count"))
                  = report.valid_price_transactions
            /\ SumOfCounts(Column(report.by_mutation_nature, "valid_price_count"))
                  = report.valid_price_transactions
            /\ SumOfCounts(Column(report.vefa_vs_classic, "valid_price_count"))
                  = report.valid_price_transactions
            /\ SumOfCounts(report.geographic_stats.departments) = report.total_transactions
            /\ report.total_transactions = Len(refined_entries)
            /\ typeCounts <= report.total_transactions
            /\ typeCounts < report.total_transactions <=> SomeTypeUnpriced

\* a report with two property types of which one has no valid-price record,
\* so that the type counts sum to less than total_transactions
C22_Witness ==
    /\ rpc = "stats_done"
    /\ Len(refined_entries) = 3
    /\ SomeTypeUnpriced
    /\ stats.val.valid_price_transactions = 2
    /\ SumOfCounts(Column(stats.val.by_property_type, "count")) = 2

(***************************************************************************)
(* Claims about the page chain.                                            *)
(***************************************************************************)
\* the urls of the successful attempts, in order
OkUrls(log) == LET ok == SelectSeq(log, LAMBDA r : r.answer = "200")
               IN  [i \in 1..Len(ok) |-> ok[i].url]

\* the last successful attempt before attempt i, 0 if there is none
LastOk(log, i) ==
    LET before == {j \in 1..(i - 1) : log[j].answer = "200"}
    IN  IF before = {} THEN 0 ELSE CHOOSE j \in before : \A k \in before : k <= j

\* C19: the requests before the first success go to the base endpoint with
\* the filter parameters; every later request goes to the "next" reference of
\* the last successful response, with no parameters; and a fetch that returns
\* on a chain of N pages has fetched pages 1..N once each, in order, and
\* returns the concatenation of their records, whatever failures and retries
\* happened in between.
C19_FollowsNextVerbatim ==
    /\ \A i \in 1..Len(reqLog) :
          LET j == LastOk(reqLog, i) IN
          IF j = 0
             THEN reqLog[i].url = 1 /\ reqLog[i].params
             ELSE /\ reqLog[i].url = NextUrl(chain, reqLog[j].url)
                  /\ ~reqLog[i].params
    /\ pc = "returned" =>
          /\ OkUrls(reqLog) = [p \in 1..chain.n |-> p]
          /\ out.set
          /\ out.val = ChainRecords(chain.n)

\* a fetch of two pages that returned their three records although attempts
\* for the second page had failed
C19_Witness ==
    /\ pc = "returned"
    /\ chain.n = 2
    /\ Len(out.val) = 3
    /\ \E i \in 1..Len(reqLog) : reqLog[i].url = 2 /\ reqLog[i].answer \in Transient

\* the fetch has ended, by returning or by raising
Ended == pc \in {"returned", "raised"}

\* the last k attempts all failed with something other than a 403, on one page
Exhausted(k) ==
    /\ Len(reqLog) >= k
    /\ \A i \in (Len(reqLog) - k + 1)..Len(reqLog) :
          /\ reqLog[i].answer \notin {"200", "403"}
          /\ reqLog[i].url = reqLog[Len(reqLog)].url

\* the three ways the loop ends, and the failed validation before it
EndsLawfully ==
    /\ pc = "returned" =>
          /\ reqLog # <<>>
          /\ reqLog[Len(reqLog)].answer = "200"
          /\ NextUrl(chain, reqLog[Len(reqLog)].url) = 0
    /\ pc = "raised" =>
          \/ error = "ValidationError" /\ reqLog = <<>>
          \/ error = "APIError" /\ reqLog # <<>> /\ reqLog[Len(reqLog)].answer = "403"
          \/ error = "APIError" /\ Exhausted(3)

\* C20: on a chain of N pages without a cycle the fetch ends, by returning or
\* by raising, after at most 3*N requests; it ends only on a successful
\* response without "next", on a 403 or on a page whose 3 attempts all failed
\* (or on the argument validation, before any request); on a chain whose
\* "next" references form a cycle it never returns, and while every response
\* is successful it never ends.
C20_Terminates ==
    /\ [](chain.loop = 0 => Len(reqLog) <= 3 * chain.n)
    /\ (chain.loop = 0 => <>Ended)
    /\ []EndsLawfully
    /\ [](chain.loop # 0 => pc # "returned")
    /\ [](chain.loop # 0 /\ (\A i \in 1..Len(reqLog) : reqLog[i].answer = "200") /\ bbox # "" /\ min_year # ""
            => ~Ended)

\* a fetch of two pages that returned with its sixth request, each page
\* having succeeded on its third attempt
C20_Witness ==
    /\ pc = "returned"
    /\ chain.n = 2
    /\ Len(reqLog) = 6

\* the failed attempts since the last success, i.e. on the current page
FailsOnPage == FailsBefore(reqLog, Len(reqLog) + 1)

\* C21: the retry budget belongs to one page.  While the fetch runs, the
\* attempts left are 3 minus the failures on the current page, whatever
\* failed on earlier pages; the fetch gives up on retries only after three
\* failures in a row on one page; and the delay after the m-th failure on a
\* page is 2^m seconds, so the delays restart at 2s on each new page.
C21_BudgetPerPage ==
    /\ pc = "loop" => retries = 3 - FailsOnPage
    /\ pc = "loop" /\ reqLog # <<>> /\ reqLog[Len(reqLog)].answer = "200" => retries = 3
    /\ (/\ pc = "raised"
         /\ error = "APIError"
         /\ reqLog[Len(reqLog)].answer # "403") => FailsOnPage = 3
    /\ \A k \in 1..Len(sleepLog) :
          sleepLog[k].secs = 2 ^ (FailsBefore(reqLog, sleepLog[k].after) + 1)

\* a fetch of two pages that returned although each page failed twice before
\* it succeeded, with the delays 2s, 4s, 2s, 4s
C21_Witness ==
    /\ pc = "returned"
    /\ chain.n = 2
    /\ [i \in 1..Len(reqLog) |-> reqLog[i].answer \in Transient]
          = <<TRUE, TRUE, FALSE, TRUE, TRUE, FALSE>>
    /\ [k \in 1..Len(sleepLog) |-> sleepLog[k].secs] = <<2, 4, 2, 4>>

(***************************************************************************)
(* Claims about main.                                                      *)
(***************************************************************************)
Stages == <<"fetch_all_pages_dvf_api", "refine_dvf_data", "calculate_comprehensive_statistics">>

\* C18: main calls the stages in the order fetch, refine, aggregate, each
\* only after the one before has returned; when the fetch raises (403,
\* exhausted retries, ValidationError) neither refine_dvf_data nor
\* calculate_comprehensive_statistics is called and no report exists.
C18_StagesInOrder ==
    /\ Len(calls) <= Len(Stages)
    /\ \A i \in 1..Len(calls) : calls[i] = Stages[i]
    /\ Len(calls) >= 2 => pc = "returned" /\ dvf_entries = [i \in 1..Len(out.val) |-> RawOf(out.val[i])]
    /\ Len(calls) = 3 => rpc \in {"stats_done", "stats_raised"} /\ rerror \in {"none", "TypeError"}
    /\ Len(calls) < 2 => rpc = "loop" /\ dvf_entries = <<>> /\ refined_entries = <<>>
    /\ Len(calls) < 3 => ~stats.set
    /\ pc = "raised" => calls = <<"fetch_all_pages_dvf_api">> /\ ~stats.set

\* a run whose fetch raised after a page had been fetched
C18_Witness ==
    /\ pc = "raised"
    /\ page_count >= 1
    /\ calls = <<"fetch_all_pages_dvf_api">>

====
